---- MODULE Spec2Model ----
(***************************************************************************)
(* Model of OptimizedOrderBook (src/optimized_orderbook.py).               *)
(*                                                                         *)
(* Python dicts are objects with identity: the book keeps REFERENCES to    *)
(* the caller's order dict in orders_by_id and in the ladder lists.  The   *)
(* model therefore keeps an object store `objects` (reference -> dict      *)
(* contents); orders_by_id and the ladders hold references.  heapq is      *)
(* modelled on the list representation with CPython's sift algorithms.     *)
(***************************************************************************)
EXTENDS Integers, Sequences, FiniteSets, TLC

\* ---- bounds of the model ------------------------------------------------
MaxId == 2
MaxPrice == 2
MaxQty == 1
MaxHeap == 3
\* identifiers of the FIFO specification, which has a level three deep
MaxFifoId == 3

OrderIds == 1..MaxId
Prices == 1..MaxPrice
\* the code does not validate quantities, so a negative one is an input too
Quantities == {-1} \cup (1..MaxQty)
\* "other" stands for any side token that is neither "bid" nor "ask"
Sides == {"bid", "ask", "other"}
\* side filter of get_orders_at_price: Both is the default side=None
Both == "None"
SideFilters == {Both, "bid", "ask"}

\* an optional order is returned as <<>> (Python None) or <<order>>
None == <<>>
Some(order) == <<order>>
\* the null reference
NoRef == 0
\* ret.exc when the call returned normally
NoExc == ""

DuplicateOrderError == "ValueError: Order ID already exists"
InvalidSideError == "ValueError: Invalid side"
RemoveError == "ValueError: list.remove(x): x not in list"

OrderDicts == [order_id : OrderIds, price : Prices, quantity : Quantities, side : Sides]

VARIABLES objects, orders_by_id, bids_by_price, asks_by_price, bid_heap, ask_heap, ret

\* pc: the call that is executing when the drain loop of best is followed
\* iteration by iteration (SpecDrain), "idle" between calls.
\* unpurged, vacated: history of the Frontier (SpecHist): per side, the number
\* of level-vacating deletes minus the number of stale pops, and the set of
\* prices whose level was vacated at least once.
\* naive_bids, naive_asks: the lists of a NaiveOrderBook that is given the same
\* calls (SpecEquiv); it holds its own order dicts.
VARIABLES pc, unpurged, vacated, naive_bids, naive_asks

book == <<objects, orders_by_id, bids_by_price, asks_by_price, bid_heap, ask_heap>>
hist == <<unpurged, vacated>>
naive == <<naive_bids, naive_asks>>
vars == <<objects, orders_by_id, bids_by_price, asks_by_price, bid_heap, ask_heap, ret,
          pc, unpurged, vacated, naive_bids, naive_asks>>

\* ---- Python dict helpers --------------------------------------------------
\* d[k] = v
Put(d, k, v) == [x \in (DOMAIN d) \cup {k} |-> IF x = k THEN v ELSE d[x]]
\* del d[k]
Del(d, k) == [x \in (DOMAIN d) \ {k} |-> d[x]]
EmptyDict == [x \in {} |-> 0]

\* references held by a ladder
LadderRefs(ladder) == UNION {{ladder[p][i] : i \in 1..Len(ladder[p])} : p \in DOMAIN ladder}
\* references the book holds after an operation
BookRefs(idx, bids, asks) == {idx[i] : i \in DOMAIN idx} \cup LadderRefs(bids) \cup LadderRefs(asks)
\* an order dict the book no longer references is out of the model
Gc(objs, idx, bids, asks) == [r \in (DOMAIN objs) \cap BookRefs(idx, bids, asks) |-> objs[r]]
\* identity of the dict object the caller passes to add_order: any reference
\* the book does not hold; the order id is taken when it is free
NewRef(order_id) ==
  IF order_id \notin DOMAIN objects THEN order_id
  ELSE CHOOSE r \in 1..(Cardinality(DOMAIN objects) + 1) :
         r \notin DOMAIN objects /\ \A s \in 1..(r - 1) : s \in DOMAIN objects

\* ---- heapq (positions are 0-based as in CPython, sequences 1-based) -------
RECURSIVE siftdown_loop(_, _, _, _)
siftdown_loop(heap, startpos, pos, newitem) ==
  IF pos > startpos
  THEN LET parentpos == (pos - 1) \div 2
           parent == heap[parentpos + 1]
       IN IF newitem < parent
          THEN siftdown_loop([heap EXCEPT ![pos + 1] = parent], startpos, parentpos, newitem)
          ELSE [heap EXCEPT ![pos + 1] = newitem]
  ELSE [heap EXCEPT ![pos + 1] = newitem]

siftdown(heap, startpos, pos) == siftdown_loop(heap, startpos, pos, heap[pos + 1])

RECURSIVE siftup_loop(_, _, _)
siftup_loop(heap, pos, newitem) ==
  LET endpos == Len(heap)
      childpos == 2 * pos + 1
  IN IF childpos < endpos
     THEN LET rightpos == childpos + 1
              c == IF rightpos < endpos /\ ~(heap[childpos + 1] < heap[rightpos + 1])
                   THEN rightpos ELSE childpos
          IN siftup_loop([heap EXCEPT ![pos + 1] = heap[c + 1]], c, newitem)
     ELSE <<[heap EXCEPT ![pos + 1] = newitem], pos>>

siftup(heap, pos) ==
  LET r == siftup_loop(heap, pos, heap[pos + 1])
  IN siftdown(r[1], pos, r[2])

\* mutant: the pushed item is not sifted towards the root
heappush_nosift(heap, item) == Append(heap, item)

heappush(heap, item) == siftdown(Append(heap, item), 0, Len(heap))

\* mutant: pops the last list element instead of the root
heappop_last(heap) == SubSeq(heap, 1, Len(heap) - 1)

heappop(heap) ==
  LET lastelt == heap[Len(heap)]
      rest == SubSeq(heap, 1, Len(heap) - 1)
  IN IF rest # <<>> THEN siftup([rest EXCEPT ![1] = lastelt], 0) ELSE rest

\* ---- list.remove(x): drops the first element that is x or equals x --------
RemoveIndex(bucket, order, objs) ==
  LET hits == {i \in 1..Len(bucket) : bucket[i] = order \/ objs[bucket[i]] = objs[order]}
  IN IF hits = {} THEN 0 ELSE CHOOSE i \in hits : \A j \in hits : i <= j

\* mutant: removal by moving the last element into the hole
RemoveAt_swap_last(bucket, i) ==
  IF i = Len(bucket) THEN SubSeq(bucket, 1, i - 1)
  ELSE SubSeq([bucket EXCEPT ![i] = bucket[Len(bucket)]], 1, Len(bucket) - 1)

RemoveAt(bucket, i) == SubSeq(bucket, 1, i - 1) \o SubSeq(bucket, i + 1, Len(bucket))

\* ---- queries as functions of the book ------------------------------------
DerefIn(objs, r) == IF r = NoRef THEN None ELSE Some(objs[r])
DerefSeqIn(objs, s) == [i \in 1..Len(s) |-> objs[s[i]]]
Deref(r) == DerefIn(objects, r)
DerefSeq(s) == DerefSeqIn(objects, s)

\* dict.get(key): the value stored under key, or None
dict_get(d, key) == IF key \in DOMAIN d THEN d[key] ELSE NoRef

lookup_ref(order_id) == dict_get(orders_by_id, order_id)

\* mutant: the asks come before the bids
at_price_asks_first(bids, asks, price, side) ==
  (IF (side = Both \/ side = "ask") /\ price \in DOMAIN asks THEN asks[price] ELSE <<>>)
  \o
  (IF (side = Both \/ side = "bid") /\ price \in DOMAIN bids THEN bids[price] ELSE <<>>)

at_price(bids, asks, price, side) ==
  (IF (side = Both \/ side = "bid") /\ price \in DOMAIN bids THEN bids[price] ELSE <<>>)
  \o
  (IF (side = Both \/ side = "ask") /\ price \in DOMAIN asks THEN asks[price] ELSE <<>>)

orders_at_price_refs(price, side) == at_price(bids_by_price, asks_by_price, price, side)

\* mutant: the price of the returned order is popped too
RECURSIVE best_bid_loop_pop_found(_, _)
best_bid_loop_pop_found(heap, ladder) ==
  IF heap # <<>>
  THEN LET best_price == 0 - heap[1]
       IN IF best_price \in DOMAIN ladder /\ ladder[best_price] # <<>>
          THEN [heap |-> heappop(heap), val |-> ladder[best_price][1]]
          ELSE best_bid_loop_pop_found(heappop(heap), ladder)
  ELSE [heap |-> heap, val |-> NoRef]

\* the while loop of get_best_bid: the heap it leaves and the order it returns
RECURSIVE best_bid_loop(_, _)
best_bid_loop(heap, ladder) ==
  IF heap # <<>>
  THEN LET negated_price == heap[1]
           best_price == 0 - negated_price
       IN IF best_price \in DOMAIN ladder /\ ladder[best_price] # <<>>
          THEN [heap |-> heap, val |-> ladder[best_price][1]]
          ELSE best_bid_loop(heappop(heap), ladder)
  ELSE [heap |-> heap, val |-> NoRef]

\* mutant: the price of the returned ask is popped too
RECURSIVE best_ask_loop_pop_found(_, _)
best_ask_loop_pop_found(heap, ladder) ==
  IF heap # <<>>
  THEN LET best_price == heap[1]
       IN IF best_price \in DOMAIN ladder /\ ladder[best_price] # <<>>
          THEN [heap |-> heappop(heap), val |-> ladder[best_price][1]]
          ELSE best_ask_loop_pop_found(heappop(heap), ladder)
  ELSE [heap |-> heap, val |-> NoRef]

RECURSIVE best_ask_loop(_, _)
best_ask_loop(heap, ladder) ==
  IF heap # <<>>
  THEN LET best_price == heap[1]
       IN IF best_price \in DOMAIN ladder /\ ladder[best_price] # <<>>
          THEN [heap |-> heap, val |-> ladder[best_price][1]]
          ELSE best_ask_loop(heappop(heap), ladder)
  ELSE [heap |-> heap, val |-> NoRef]

\* ---- construction ---------------------------------------------------------
Init ==
  /\ objects = EmptyDict
  /\ orders_by_id = EmptyDict
  /\ bids_by_price = EmptyDict
  /\ asks_by_price = EmptyDict
  /\ bid_heap = <<>>
  /\ ask_heap = <<>>
  /\ ret = [op |-> "__init__", exc |-> NoExc, val |-> None]
  /\ pc = "idle"
  /\ unpurged = [sd \in {"bid", "ask"} |-> 0]
  /\ vacated = [sd \in {"bid", "ask"} |-> {}]
  /\ naive_bids = <<>>
  /\ naive_asks = <<>>

\* ---- operations -----------------------------------------------------------
\* mutant: the order is put at the head of its bucket
add_order_store_prepend(order_dict) ==
  LET order_id == order_dict.order_id
      price == order_dict.price
      side == order_dict.side
      ref == NewRef(order_id)
  IN      /\ orders_by_id' = Put(orders_by_id, order_id, ref)
          /\ objects' = Put(objects, ref, order_dict)
          /\ IF side = "bid"
             THEN /\ IF price \notin DOMAIN bids_by_price
                     THEN /\ Len(bid_heap) < MaxHeap
                          /\ bid_heap' = heappush(bid_heap, 0 - price)
                          /\ bids_by_price' = Put(bids_by_price, price, <<ref>>)
                     ELSE /\ bid_heap' = bid_heap
                          /\ bids_by_price' = Put(bids_by_price, price, <<ref>> \o bids_by_price[price])
                  /\ UNCHANGED <<asks_by_price, ask_heap>>
                  /\ ret' = [op |-> "add_order", exc |-> NoExc, val |-> None]
             ELSE IF side = "ask"
             THEN /\ IF price \notin DOMAIN asks_by_price
                     THEN /\ Len(ask_heap) < MaxHeap
                          /\ ask_heap' = heappush(ask_heap, price)
                          /\ asks_by_price' = Put(asks_by_price, price, <<ref>>)
                     ELSE /\ ask_heap' = ask_heap
                          /\ asks_by_price' = Put(asks_by_price, price, <<ref>> \o asks_by_price[price])
                  /\ UNCHANGED <<bids_by_price, bid_heap>>
                  /\ ret' = [op |-> "add_order", exc |-> NoExc, val |-> None]
             ELSE /\ ret' = [op |-> "add_order", exc |-> InvalidSideError, val |-> None]
                  /\ UNCHANGED <<bids_by_price, asks_by_price, bid_heap, ask_heap>>

\* add_order after the duplicate check: the store into orders_by_id, then the
\* side branches
add_order_store(order_dict) ==
  LET order_id == order_dict.order_id
      price == order_dict.price
      side == order_dict.side
      ref == NewRef(order_id)
  IN      /\ orders_by_id' = Put(orders_by_id, order_id, ref)
          /\ objects' = Put(objects, ref, order_dict)
          /\ IF side = "bid"
             THEN /\ IF price \notin DOMAIN bids_by_price
                     THEN /\ Len(bid_heap) < MaxHeap
                          /\ bid_heap' = heappush(bid_heap, 0 - price)
                          /\ bids_by_price' = Put(bids_by_price, price, <<ref>>)
                     ELSE /\ bid_heap' = bid_heap
                          /\ bids_by_price' = Put(bids_by_price, price, Append(bids_by_price[price], ref))
                  /\ UNCHANGED <<asks_by_price, ask_heap>>
                  /\ ret' = [op |-> "add_order", exc |-> NoExc, val |-> None]
             ELSE IF side = "ask"
             THEN /\ IF price \notin DOMAIN asks_by_price
                     THEN /\ Len(ask_heap) < MaxHeap
                          /\ ask_heap' = heappush(ask_heap, price)
                          /\ asks_by_price' = Put(asks_by_price, price, <<ref>>)
                     ELSE /\ ask_heap' = ask_heap
                          /\ asks_by_price' = Put(asks_by_price, price, Append(asks_by_price[price], ref))
                  /\ UNCHANGED <<bids_by_price, bid_heap>>
                  /\ ret' = [op |-> "add_order", exc |-> NoExc, val |-> None]
             ELSE /\ ret' = [op |-> "add_order", exc |-> InvalidSideError, val |-> None]
                  /\ UNCHANGED <<bids_by_price, asks_by_price, bid_heap, ask_heap>>

\* mutant: the duplicate check comes after the store, so a duplicate add
\* replaces the stored order before it raises
add_order_check_late(order_dict) ==
  IF order_dict.order_id \in DOMAIN orders_by_id
  THEN /\ ret' = [op |-> "add_order", exc |-> DuplicateOrderError, val |-> None]
       /\ objects' = [objects EXCEPT ![orders_by_id[order_dict.order_id]] = order_dict]
       /\ UNCHANGED <<orders_by_id, bids_by_price, asks_by_price, bid_heap, ask_heap>>
  ELSE add_order_store(order_dict)

add_order(order_dict) ==
  IF order_dict.order_id \in DOMAIN orders_by_id
  THEN /\ ret' = [op |-> "add_order", exc |-> DuplicateOrderError, val |-> None]
       /\ UNCHANGED book
  ELSE add_order_store(order_dict)

\* mutant: the amended order is a copy stored in the index; the ladder keeps
\* the old dict
amend_order_copy(order_id, new_quantity) ==
  IF order_id \notin DOMAIN orders_by_id
  THEN /\ ret' = [op |-> "amend_order", exc |-> NoExc, val |-> FALSE]
       /\ UNCHANGED book
  ELSE LET order == orders_by_id[order_id]
           copy == NewRef(order_id)
           idx == Put(orders_by_id, order_id, copy)
       IN /\ orders_by_id' = idx
          /\ objects' = Gc(Put(objects, copy, [objects[order] EXCEPT !.quantity = new_quantity]),
                           idx, bids_by_price, asks_by_price)
          /\ ret' = [op |-> "amend_order", exc |-> NoExc, val |-> TRUE]
          /\ UNCHANGED <<bids_by_price, asks_by_price, bid_heap, ask_heap>>

amend_order(order_id, new_quantity) ==
  IF order_id \notin DOMAIN orders_by_id
  THEN /\ ret' = [op |-> "amend_order", exc |-> NoExc, val |-> FALSE]
       /\ UNCHANGED book
  ELSE LET order == orders_by_id[order_id]
       IN /\ objects' = [objects EXCEPT ![order].quantity = new_quantity]
          /\ ret' = [op |-> "amend_order", exc |-> NoExc, val |-> TRUE]
          /\ UNCHANGED <<orders_by_id, bids_by_price, asks_by_price, bid_heap, ask_heap>>

\* mutant: the emptied price level is not deleted from the ladder
LadderRemove_keep_level(ladder, price, order) ==
  LET i == RemoveIndex(ladder[price], order, objects)
  IN IF i = 0 THEN ladder ELSE Put(ladder, price, RemoveAt(ladder[price], i))

\* the ladder after "ladder[price].remove(order)" and the emptiness test,
\* or the ladder as it was when remove raises
LadderRemove(ladder, price, order) ==
  LET i == RemoveIndex(ladder[price], order, objects)
      bucket == RemoveAt(ladder[price], i)
  IN IF i = 0 THEN ladder
     ELSE IF bucket = <<>> THEN Del(ladder, price) ELSE Put(ladder, price, bucket)

\* mutant: the order leaves its bucket but "del self.orders_by_id[order_id]" is
\* missing
delete_order_effect_keep_index(order_id) ==
  LET order == orders_by_id[order_id]
      price == objects[order].price
      side == objects[order].side
  IN [idx |-> orders_by_id,
      bids |-> IF side = "bid" /\ price \in DOMAIN bids_by_price
               THEN LadderRemove(bids_by_price, price, order) ELSE bids_by_price,
      asks |-> IF side = "ask" /\ price \in DOMAIN asks_by_price
               THEN LadderRemove(asks_by_price, price, order) ELSE asks_by_price,
      raised |-> FALSE]

\* delete_order of a present id: index and ladders after lines 122-147, and
\* whether list.remove raised
delete_order_effect(order_id) ==
  LET order == orders_by_id[order_id]
      price == objects[order].price
      side == objects[order].side
  IN [idx |-> Del(orders_by_id, order_id),
      bids |-> IF side = "bid" /\ price \in DOMAIN bids_by_price
               THEN LadderRemove(bids_by_price, price, order) ELSE bids_by_price,
      asks |-> IF side = "ask" /\ price \in DOMAIN asks_by_price
               THEN LadderRemove(asks_by_price, price, order) ELSE asks_by_price,
      raised |-> \/ /\ side = "bid" /\ price \in DOMAIN bids_by_price
                    /\ RemoveIndex(bids_by_price[price], order, objects) = 0
                 \/ /\ side = "ask" /\ price \in DOMAIN asks_by_price
                    /\ RemoveIndex(asks_by_price[price], order, objects) = 0]

\* mutant: eager deletion, the root of the heap is popped when a level is vacated
delete_order_eager(order_id) ==
  IF order_id \notin DOMAIN orders_by_id
  THEN /\ ret' = [op |-> "delete_order", exc |-> NoExc, val |-> FALSE]
       /\ UNCHANGED book
  ELSE LET e == delete_order_effect(order_id)
       IN /\ orders_by_id' = e.idx
          /\ bids_by_price' = e.bids
          /\ asks_by_price' = e.asks
          /\ objects' = Gc(objects, e.idx, e.bids, e.asks)
          /\ ret' = IF e.raised THEN [op |-> "delete_order", exc |-> RemoveError, val |-> None]
                    ELSE [op |-> "delete_order", exc |-> NoExc, val |-> TRUE]
          /\ bid_heap' = IF DOMAIN e.bids # DOMAIN bids_by_price THEN heappop(bid_heap) ELSE bid_heap
          /\ ask_heap' = IF DOMAIN e.asks # DOMAIN asks_by_price THEN heappop(ask_heap) ELSE ask_heap

delete_order(order_id) ==
  IF order_id \notin DOMAIN orders_by_id
  THEN /\ ret' = [op |-> "delete_order", exc |-> NoExc, val |-> FALSE]
       /\ UNCHANGED book
  ELSE LET e == delete_order_effect(order_id)
       IN /\ orders_by_id' = e.idx
          /\ bids_by_price' = e.bids
          /\ asks_by_price' = e.asks
          /\ objects' = Gc(objects, e.idx, e.bids, e.asks)
          /\ ret' = IF e.raised THEN [op |-> "delete_order", exc |-> RemoveError, val |-> None]
                    ELSE [op |-> "delete_order", exc |-> NoExc, val |-> TRUE]
          /\ UNCHANGED <<bid_heap, ask_heap>>

\* mutant: subscript instead of dict.get, an absent id raises KeyError
lookup_order_subscript(order_id) ==
  /\ ret' = IF order_id \in DOMAIN orders_by_id
            THEN [op |-> "lookup_order", exc |-> NoExc, val |-> Deref(lookup_ref(order_id))]
            ELSE [op |-> "lookup_order", exc |-> "KeyError", val |-> None]
  /\ UNCHANGED book

lookup_order(order_id) ==
  /\ ret' = [op |-> "lookup_order", exc |-> NoExc, val |-> Deref(lookup_ref(order_id))]
  /\ UNCHANGED book

get_orders_at_price(price, side) ==
  /\ ret' = [op |-> "get_orders_at_price", exc |-> NoExc, val |-> DerefSeq(orders_at_price_refs(price, side))]
  /\ UNCHANGED book

get_best_bid ==
  LET r == best_bid_loop(bid_heap, bids_by_price)
  IN /\ bid_heap' = r.heap
     /\ ret' = [op |-> "get_best_bid", exc |-> NoExc, val |-> Deref(r.val)]
     /\ UNCHANGED <<objects, orders_by_id, bids_by_price, asks_by_price, ask_heap>>

get_best_ask ==
  LET r == best_ask_loop(ask_heap, asks_by_price)
  IN /\ ask_heap' = r.heap
     /\ ret' = [op |-> "get_best_ask", exc |-> NoExc, val |-> Deref(r.val)]
     /\ UNCHANGED <<objects, orders_by_id, bids_by_price, asks_by_price, bid_heap>>

\* mutant: the ask side is computed only when a bid was found
get_best_bid_ask_short_circuit ==
  LET b == best_bid_loop(bid_heap, bids_by_price)
      a == IF b.val = NoRef THEN [heap |-> ask_heap, val |-> NoRef]
           ELSE best_ask_loop(ask_heap, asks_by_price)
  IN /\ bid_heap' = b.heap
     /\ ask_heap' = a.heap
     /\ ret' = [op |-> "get_best_bid_ask", exc |-> NoExc, val |-> <<Deref(b.val), Deref(a.val)>>]
     /\ UNCHANGED <<objects, orders_by_id, bids_by_price, asks_by_price>>

get_best_bid_ask ==
  LET b == best_bid_loop(bid_heap, bids_by_price)
      a == best_ask_loop(ask_heap, asks_by_price)
  IN /\ bid_heap' = b.heap
     /\ ask_heap' = a.heap
     /\ ret' = [op |-> "get_best_bid_ask", exc |-> NoExc, val |-> <<Deref(b.val), Deref(a.val)>>]
     /\ UNCHANGED <<objects, orders_by_id, bids_by_price, asks_by_price>>

\* ---- the optimized book alone, every call atomic --------------------------
AddOrder == \E o \in OrderDicts : add_order(o) /\ UNCHANGED <<pc, hist, naive>>
AmendOrder == \E i \in OrderIds, q \in Quantities : amend_order(i, q) /\ UNCHANGED <<pc, hist, naive>>
DeleteOrder == \E i \in OrderIds : delete_order(i) /\ UNCHANGED <<pc, hist, naive>>
LookupOrder == \E i \in OrderIds : lookup_order(i) /\ UNCHANGED <<pc, hist, naive>>
GetOrdersAtPrice ==
  \E p \in Prices, s \in SideFilters : get_orders_at_price(p, s) /\ UNCHANGED <<pc, hist, naive>>
GetBestBid == get_best_bid /\ UNCHANGED <<pc, hist, naive>>
GetBestAsk == get_best_ask /\ UNCHANGED <<pc, hist, naive>>
GetBestBidAsk == get_best_bid_ask /\ UNCHANGED <<pc, hist, naive>>

Next ==
  \/ AddOrder
  \/ AmendOrder
  \/ DeleteOrder
  \/ LookupOrder
  \/ GetOrdersAtPrice
  \/ GetBestBid
  \/ GetBestAsk
  \/ GetBestBidAsk

Spec == Init /\ [][Next]_vars

\* ---- adds and deletes on levels up to MaxFifoId deep -----------------------
\* well-formed orders of one quantity; the Frontier is never drained
FifoIds == 1..MaxFifoId
FifoDicts == [order_id : FifoIds, price : Prices, quantity : {MaxQty}, side : {"bid", "ask"}]
FifoAdd == \E o \in FifoDicts : add_order(o) /\ UNCHANGED <<pc, hist, naive>>
FifoDelete == \E i \in FifoIds : delete_order(i) /\ UNCHANGED <<pc, hist, naive>>
FifoQuery ==
  \E p \in Prices, s \in SideFilters : get_orders_at_price(p, s) /\ UNCHANGED <<pc, hist, naive>>

NextFifo ==
  \/ FifoAdd
  \/ FifoDelete
  \/ FifoQuery

SpecFifo == Init /\ [][NextFifo]_vars

\* ---- the optimized book with the history of its Frontier -------------------
\* the levels of a ladder that a step removed
VacatedBy(before, after) == DOMAIN before \ DOMAIN after
\* the number of entries a step popped from a heap
PoppedBy(before, after) == IF Len(before) > Len(after) THEN Len(before) - Len(after) ELSE 0

\* every step records the levels it vacated and the entries it popped
Record ==
  /\ unpurged' = [sd \in {"bid", "ask"} |->
                    IF sd = "bid"
                    THEN unpurged[sd] + Cardinality(VacatedBy(bids_by_price, bids_by_price'))
                                      - PoppedBy(bid_heap, bid_heap')
                    ELSE unpurged[sd] + Cardinality(VacatedBy(asks_by_price, asks_by_price'))
                                      - PoppedBy(ask_heap, ask_heap')]
  /\ vacated' = [sd \in {"bid", "ask"} |->
                   IF sd = "bid"
                   THEN vacated[sd] \cup VacatedBy(bids_by_price, bids_by_price')
                   ELSE vacated[sd] \cup VacatedBy(asks_by_price, asks_by_price')]

HistAdd == \E o \in OrderDicts : add_order(o) /\ Record /\ UNCHANGED <<pc, naive>>
HistAmend == \E i \in OrderIds, q \in Quantities : amend_order(i, q) /\ Record /\ UNCHANGED <<pc, naive>>
HistDelete == \E i \in OrderIds : delete_order(i) /\ Record /\ UNCHANGED <<pc, naive>>
HistLookup == \E i \in OrderIds : lookup_order(i) /\ Record /\ UNCHANGED <<pc, naive>>
HistAtPrice ==
  \E p \in Prices, s \in SideFilters : get_orders_at_price(p, s) /\ Record /\ UNCHANGED <<pc, naive>>
HistBestBid == get_best_bid /\ Record /\ UNCHANGED <<pc, naive>>
HistBestAsk == get_best_ask /\ Record /\ UNCHANGED <<pc, naive>>
HistBestBidAsk == get_best_bid_ask /\ Record /\ UNCHANGED <<pc, naive>>

NextHist ==
  \/ HistAdd
  \/ HistAmend
  \/ HistDelete
  \/ HistLookup
  \/ HistAtPrice
  \/ HistBestBid
  \/ HistBestAsk
  \/ HistBestBidAsk

SpecHist == Init /\ [][NextHist]_vars

\* ---- the drain loop of best, one iteration per step -------------------------
\* A call of get_best_bid or get_best_ask is entered (pc names it) and its while
\* loop is followed one iteration at a time; the book is single-threaded, so no
\* other call starts before the running one has returned.
DrainDicts == [order_id : OrderIds, price : Prices, quantity : {MaxQty}, side : Sides]

DrainAdd == pc = "idle" /\ \E o \in DrainDicts : add_order(o) /\ Record /\ UNCHANGED <<pc, naive>>
DrainDelete == pc = "idle" /\ \E i \in OrderIds : delete_order(i) /\ Record /\ UNCHANGED <<pc, naive>>

begin_get_best_bid ==
  /\ pc = "idle"
  /\ pc' = "get_best_bid"
  /\ UNCHANGED <<book, ret, hist, naive>>

begin_get_best_ask ==
  /\ pc = "idle"
  /\ pc' = "get_best_ask"
  /\ UNCHANGED <<book, ret, hist, naive>>

\* mutant: the top is popped before it is tested, so a live price is popped too
get_best_bid_iteration_pop_first ==
  /\ pc = "get_best_bid"
  /\ IF bid_heap # <<>>
     THEN LET best_price == 0 - bid_heap[1]
          IN /\ bid_heap' = heappop(bid_heap)
             /\ IF best_price \in DOMAIN bids_by_price /\ bids_by_price[best_price] # <<>>
                THEN /\ ret' = [op |-> "get_best_bid", exc |-> NoExc,
                                val |-> Deref(bids_by_price[best_price][1])]
                     /\ pc' = "idle"
                ELSE UNCHANGED <<ret, pc>>
     ELSE /\ ret' = [op |-> "get_best_bid", exc |-> NoExc, val |-> None]
          /\ pc' = "idle"
          /\ UNCHANGED bid_heap
  /\ UNCHANGED <<objects, orders_by_id, bids_by_price, asks_by_price, ask_heap>>
  /\ Record
  /\ UNCHANGED naive

\* one test of "while self.bid_heap" and the body that follows it
get_best_bid_iteration ==
  /\ pc = "get_best_bid"
  /\ IF bid_heap # <<>>
     THEN LET negated_price == bid_heap[1]
              best_price == 0 - negated_price
          IN IF best_price \in DOMAIN bids_by_price /\ bids_by_price[best_price] # <<>>
             THEN /\ ret' = [op |-> "get_best_bid", exc |-> NoExc,
                             val |-> Deref(bids_by_price[best_price][1])]
                  /\ pc' = "idle"
                  /\ UNCHANGED bid_heap
             ELSE /\ bid_heap' = heappop(bid_heap)
                  /\ UNCHANGED <<ret, pc>>
     ELSE /\ ret' = [op |-> "get_best_bid", exc |-> NoExc, val |-> None]
          /\ pc' = "idle"
          /\ UNCHANGED bid_heap
  /\ UNCHANGED <<objects, orders_by_id, bids_by_price, asks_by_price, ask_heap>>
  /\ Record
  /\ UNCHANGED naive

get_best_ask_iteration ==
  /\ pc = "get_best_ask"
  /\ IF ask_heap # <<>>
     THEN LET best_price == ask_heap[1]
          IN IF best_price \in DOMAIN asks_by_price /\ asks_by_price[best_price] # <<>>
             THEN /\ ret' = [op |-> "get_best_ask", exc |-> NoExc,
                             val |-> Deref(asks_by_price[best_price][1])]
                  /\ pc' = "idle"
                  /\ UNCHANGED ask_heap
             ELSE /\ ask_heap' = heappop(ask_heap)
                  /\ UNCHANGED <<ret, pc>>
     ELSE /\ ret' = [op |-> "get_best_ask", exc |-> NoExc, val |-> None]
          /\ pc' = "idle"
          /\ UNCHANGED ask_heap
  /\ UNCHANGED <<objects, orders_by_id, bids_by_price, asks_by_price, bid_heap>>
  /\ Record
  /\ UNCHANGED naive

NextDrain ==
  \/ DrainAdd
  \/ DrainDelete
  \/ begin_get_best_bid
  \/ begin_get_best_ask
  \/ get_best_bid_iteration
  \/ get_best_ask_iteration

SpecDrain == Init /\ [][NextDrain]_vars

\* ---- NaiveOrderBook (src/naive_orderbook.py) --------------------------------
\* the lists hold the order dicts themselves: every order is in one list only

\* mutant: an element is placed before the elements of equal price
sort_insert_before_equal(sorted, x, reverse) ==
  LET Before(e) == IF reverse THEN e.price > x.price ELSE e.price < x.price
      k == Cardinality({j \in 1..Len(sorted) : Before(sorted[j])})
  IN SubSeq(sorted, 1, k) \o <<x>> \o SubSeq(sorted, k + 1, Len(sorted))

\* x placed into a sorted list behind every element that does not sort after it
sort_insert(sorted, x, reverse) ==
  LET Before(e) == IF reverse THEN e.price >= x.price ELSE e.price <= x.price
      k == Cardinality({j \in 1..Len(sorted) : Before(sorted[j])})
  IN SubSeq(sorted, 1, k) \o <<x>> \o SubSeq(sorted, k + 1, Len(sorted))

\* list.sort(key=price, reverse=...): a stable sort, with reverse=True too
RECURSIVE list_sort(_, _)
list_sort(list, reverse) ==
  IF list = <<>> THEN <<>>
  ELSE sort_insert(list_sort(SubSeq(list, 1, Len(list) - 1), reverse), list[Len(list)], reverse)

\* index of the first order of the list with the id, 0 when there is none
naive_find(list, order_id) ==
  LET hits == {i \in 1..Len(list) : list[i].order_id = order_id}
  IN IF hits = {} THEN 0 ELSE CHOOSE i \in hits : \A j \in hits : i <= j

naive_add_order(order_dict) ==
  IF order_dict.side = "bid"
  THEN /\ naive_bids' = list_sort(Append(naive_bids, order_dict), TRUE)
       /\ UNCHANGED naive_asks
  ELSE IF order_dict.side = "ask"
  THEN /\ naive_asks' = list_sort(Append(naive_asks, order_dict), FALSE)
       /\ UNCHANGED naive_bids
  ELSE UNCHANGED <<naive_bids, naive_asks>>

\* the lists after amend_order and the value it returns
naive_amend_order_effect(order_id, new_quantity) ==
  LET b == naive_find(naive_bids, order_id)
      a == naive_find(naive_asks, order_id)
  IN IF b # 0
     THEN [bids |-> list_sort([naive_bids EXCEPT ![b].quantity = new_quantity], TRUE),
           asks |-> naive_asks, val |-> TRUE]
     ELSE IF a # 0
     THEN [bids |-> naive_bids,
           asks |-> list_sort([naive_asks EXCEPT ![a].quantity = new_quantity], FALSE), val |-> TRUE]
     ELSE [bids |-> naive_bids, asks |-> naive_asks, val |-> FALSE]

naive_amend_order(order_id, new_quantity) ==
  /\ naive_bids' = naive_amend_order_effect(order_id, new_quantity).bids
  /\ naive_asks' = naive_amend_order_effect(order_id, new_quantity).asks

\* the lists after delete_order and the value it returns
naive_delete_order_effect(order_id) ==
  LET b == naive_find(naive_bids, order_id)
      a == naive_find(naive_asks, order_id)
  IN IF b # 0
     THEN [bids |-> list_sort(RemoveAt(naive_bids, b), TRUE), asks |-> naive_asks, val |-> TRUE]
     ELSE IF a # 0
     THEN [bids |-> naive_bids, asks |-> list_sort(RemoveAt(naive_asks, a), FALSE), val |-> TRUE]
     ELSE [bids |-> naive_bids, asks |-> naive_asks, val |-> FALSE]

naive_delete_order(order_id) ==
  /\ naive_bids' = naive_delete_order_effect(order_id).bids
  /\ naive_asks' = naive_delete_order_effect(order_id).asks

naive_lookup_order(order_id) ==
  LET b == naive_find(naive_bids, order_id)
      a == naive_find(naive_asks, order_id)
  IN IF b # 0 THEN Some(naive_bids[b])
     ELSE IF a # 0 THEN Some(naive_asks[a]) ELSE None

naive_get_orders_at_price(price, side) ==
  LET AtPrice(order) == order.price = price
  IN (IF side = Both \/ side = "bid" THEN SelectSeq(naive_bids, AtPrice) ELSE <<>>)
     \o
     (IF side = Both \/ side = "ask" THEN SelectSeq(naive_asks, AtPrice) ELSE <<>>)

naive_get_best_bid == IF naive_bids # <<>> THEN Some(naive_bids[1]) ELSE None
naive_get_best_ask == IF naive_asks # <<>> THEN Some(naive_asks[1]) ELSE None

\* ---- both books given the same well-formed calls --------------------------
\* adds carry an id that is not live and a side that is "bid" or "ask"
MaxEquivId == 3
EquivIds == 1..MaxEquivId
EquivDicts == [order_id : EquivIds, price : Prices, quantity : Quantities, side : {"bid", "ask"}]

EquivAdd ==
  \E o \in EquivDicts :
    /\ o.order_id \notin DOMAIN orders_by_id
    /\ add_order(o)
    /\ naive_add_order(o)
    /\ UNCHANGED <<pc, hist>>
EquivAmend ==
  \E i \in EquivIds, q \in Quantities :
    amend_order(i, q) /\ naive_amend_order(i, q) /\ UNCHANGED <<pc, hist>>
EquivDelete ==
  \E i \in EquivIds : delete_order(i) /\ naive_delete_order(i) /\ UNCHANGED <<pc, hist>>
\* the queries of the naive book change nothing
EquivBestBid == get_best_bid /\ UNCHANGED <<pc, hist, naive>>
EquivBestAsk == get_best_ask /\ UNCHANGED <<pc, hist, naive>>

NextEquiv ==
  \/ EquivAdd
  \/ EquivAmend
  \/ EquivDelete
  \/ EquivBestBid
  \/ EquivBestAsk

SpecEquiv == Init /\ [][NextEquiv]_vars

\* ---- helpers of the properties -------------------------------------------
BookSides == {"bid", "ask"}
Ladder(side) == IF side = "bid" THEN bids_by_price
                ELSE IF side = "ask" THEN asks_by_price ELSE EmptyDict
Count(bucket, r) == Cardinality({k \in 1..Len(bucket) : bucket[k] = r})
BucketCount(ladder, p, r) == IF p \in DOMAIN ladder THEN Count(ladder[p], r) ELSE 0
InIndex(r) == \E i \in DOMAIN orders_by_id : orders_by_id[i] = r
\* the orders of a side that are live in the Identity Index
LiveRefs(side) == {r \in {orders_by_id[i] : i \in DOMAIN orders_by_id} : objects[r].side = side}
HeapHas(heap, item) == \E k \in 1..Len(heap) : heap[k] = item

\* C1: an add_order with an unrecognized side (id not present) fails with the
\* invalid-side error and leaves orders_by_id, both ladders and both heaps as
\* they were, so the id is still absent afterwards.
C1_InvalidSideLeavesBookUnchanged ==
  [][ret'.op = "add_order" =>
       \/ /\ ret'.exc = InvalidSideError
          /\ orders_by_id' = orders_by_id
          /\ bids_by_price' = bids_by_price /\ asks_by_price' = asks_by_price
          /\ bid_heap' = bid_heap /\ ask_heap' = ask_heap
       \* or the step is not an add of a fresh identifier with an unrecognized side
       \/ ~(\E o \in OrderDicts : /\ o.side \notin BookSides
                                   /\ o.order_id \notin DOMAIN orders_by_id
                                   /\ add_order(o))]_vars

\* C2: the Identity Index and the Price Ladders agree: an order is in
\* orders_by_id iff it occurs exactly once in the bucket of its own side at its
\* own price, and it occurs in no other bucket of either side.
C2_IndexAndLaddersAgree ==
  \A r \in DOMAIN objects :
    LET o == objects[r]
    IN InIndex(r) <=>
         /\ BucketCount(Ladder(o.side), o.price, r) = 1
         /\ \A s \in BookSides : \A p \in DOMAIN Ladder(s) :
              (s # o.side \/ p # o.price) => Count(Ladder(s)[p], r) = 0

\* the answer of best by direct enumeration: no live order of the side in the
\* index -> None; else the head (oldest, by FIFO) of the bucket at the best
\* price among the live orders of the side
BestPrice(side) ==
  LET ps == {objects[r].price : r \in LiveRefs(side)}
  IN CHOOSE p \in ps : \A q \in ps : IF side = "bid" THEN q <= p ELSE p <= q
ExpectedBest(side) ==
  IF LiveRefs(side) = {} THEN None
  ELSE Some(objects[Ladder(side)[BestPrice(side)][1]])

\* C3: get_best_bid returns not-found exactly when no bid is live, else the
\* oldest order at the highest live bid price; get_best_ask likewise with the
\* lowest live ask price; the returned order is never a deleted one.
C3_BestIsOldestAtBestLivePrice ==
  /\ ret.op = "get_best_bid" => ret.val = ExpectedBest("bid")
  /\ ret.op = "get_best_ask" => ret.val = ExpectedBest("ask")
  /\ ret.op = "get_best_bid_ask" => ret.val = <<ExpectedBest("bid"), ExpectedBest("ask")>>
  /\ \A side \in BookSides :
       (ret.op = "get_best_" \o side /\ ret.val # None)
       => /\ ret.val[1].side = side
          /\ ret.val[1].order_id \in DOMAIN orders_by_id
          /\ objects[orders_by_id[ret.val[1].order_id]] = ret.val[1]

\* C3 witness: a best call answered with the head of a bucket of two orders
\* at a price below the highest one, the only entry left in the Frontier
C3_Witness ==
  /\ ret.op = "get_best_bid" /\ ret.val # None
  /\ Len(bids_by_price[ret.val[1].price]) = 2
  /\ ret.val[1].price < MaxPrice
  /\ bid_heap = <<0 - ret.val[1].price>>

\* C4: every price key of bids_by_price has its negation in bid_heap and every
\* price key of asks_by_price is in ask_heap.
C4_LivePricesAreInFrontier ==
  /\ \A p \in DOMAIN bids_by_price : HeapHas(bid_heap, 0 - p)
  /\ \A p \in DOMAIN asks_by_price : HeapHas(ask_heap, p)

\* C4 witness: a level that was vacated, purged by a best call and re-created
\* next to a stale entry of another price
C4_Witness ==
  /\ ret.op = "add_order" /\ ret.exc = NoExc
  /\ DOMAIN bids_by_price = {1}
  /\ Len(bid_heap) = MaxHeap
  /\ HeapHas(bid_heap, 0 - 2)

\* C5: every price key of a ladder maps to a non-empty sequence, and a price is
\* a key iff a live order of that side rests at that price.
C5_LadderKeysAreLiveLevels ==
  \A s \in BookSides :
    /\ \A p \in DOMAIN Ladder(s) : Ladder(s)[p] # <<>>
    /\ \A p \in Prices :
         p \in DOMAIN Ladder(s) <=> \E r \in LiveRefs(s) : objects[r].price = p

\* C5 witness: a delete took the last order of a level while the other level
\* of the side stays
C5_Witness ==
  /\ ret.op = "delete_order" /\ ret.val = TRUE
  /\ \E s \in BookSides : Cardinality(DOMAIN Ladder(s)) = 1 /\ Len(IF s = "bid" THEN bid_heap ELSE ask_heap) = 2

\* C6: an add_order with an identifier already in the Identity Index fails with
\* the duplicate-order error and changes nothing: the stored order keeps its
\* price, quantity and side, and index, ladders and heaps are as before.
C6_DuplicateAddChangesNothing ==
  [][ret'.op = "add_order" =>
       \/ /\ ret'.exc = DuplicateOrderError
          /\ objects' = objects
          /\ orders_by_id' = orders_by_id
          /\ bids_by_price' = bids_by_price /\ asks_by_price' = asks_by_price
          /\ bid_heap' = bid_heap /\ ask_heap' = ask_heap
       \* or the step is not an add of an identifier that is present
       \/ ~(\E o \in OrderDicts : o.order_id \in DOMAIN orders_by_id /\ add_order(o))]_vars

\* C6 witness: a duplicate add was rejected while the first order rests
C6_Witness ==
  /\ ret.op = "add_order" /\ ret.exc = DuplicateOrderError
  /\ \E s \in BookSides : LiveRefs(s) # {}

\* the order dict with the quantity an amend of order_id gives it
Amended(order, order_id, q) ==
  IF order.order_id = order_id THEN [order EXCEPT !.quantity = q] ELSE order
AmendedSeq(orders, order_id, q) ==
  [k \in 1..Len(orders) |-> Amended(orders[k], order_id, q)]
Without(bucket, r) == LET Keep(x) == x # r IN SelectSeq(bucket, Keep)

\* C7: get_orders_at_price returns the live orders of a side at a price in the
\* order of their adds: a successful add appends the new order to the result
\* for its side and price, a delete removes exactly the deleted order (which
\* occurred once) and keeps the others in order, and no other result changes.
C7_FifoAtPrice ==
  [][IF ret'.op = "add_order" /\ ret'.exc = NoExc
     THEN \A o \in OrderDicts \cup FifoDicts : add_order(o) =>
            \A p \in Prices, sd \in BookSides :
              at_price(bids_by_price', asks_by_price', p, sd)
                = IF p = o.price /\ sd = o.side
                  THEN Append(orders_at_price_refs(p, sd), orders_by_id'[o.order_id])
                  ELSE orders_at_price_refs(p, sd)
     ELSE IF ret'.op = "delete_order" /\ ret'.exc = NoExc /\ ret'.val = TRUE
     THEN \A i \in DOMAIN orders_by_id : delete_order(i) =>
            \A p \in Prices, sd \in BookSides :
              /\ at_price(bids_by_price', asks_by_price', p, sd)
                   = Without(orders_at_price_refs(p, sd), orders_by_id[i])
              /\ (p = objects[orders_by_id[i]].price /\ sd = objects[orders_by_id[i]].side)
                   => Count(orders_at_price_refs(p, sd), orders_by_id[i]) = 1
     ELSE /\ \A p \in Prices, sd \in BookSides :
               at_price(bids_by_price', asks_by_price', p, sd) = orders_at_price_refs(p, sd)
          /\ ret'.op = "get_orders_at_price" =>
               \E p \in Prices, sd \in SideFilters :
                 ret'.val = DerefSeqIn(objects', at_price(bids_by_price', asks_by_price', p, sd))
    ]_vars

\* C7 witness: on a book whose only level ever created is bid 1, a delete has
\* left two of the orders in the bucket
C7_Witness ==
  /\ ret.op = "delete_order" /\ ret.exc = NoExc /\ ret.val = TRUE
  /\ bid_heap = <<0 - 1>> /\ ask_heap = <<>>
  /\ Len(orders_at_price_refs(1, "bid")) = 2

\* C8: two best calls in a row: the second returns what the first returned and
\* leaves the Frontier as the first left it, for both sides.
C8_BestTwiceIsIdempotent ==
  LET b1 == best_bid_loop(bid_heap, bids_by_price)
      b2 == best_bid_loop(b1.heap, bids_by_price)
      a1 == best_ask_loop(ask_heap, asks_by_price)
      a2 == best_ask_loop(a1.heap, asks_by_price)
  IN /\ b2.val = b1.val /\ b2.heap = b1.heap
     /\ a2.val = a1.val /\ a2.heap = a1.heap

\* C8 witness: a state in which the first call purges a stale entry and then
\* returns a live order
C8_Witness ==
  LET b1 == best_bid_loop(bid_heap, bids_by_price)
  IN b1.heap # bid_heap /\ b1.val # NoRef /\ Len(b1.heap) >= 2

\* C9: delete_order of a present identifier returns found, removes the order
\* from the Identity Index and from its ladder bucket, and leaves bid_heap and
\* ask_heap as they were.
C9_DeleteLeavesFrontier ==
  [][ret'.op = "delete_order" =>
       \A i \in DOMAIN orders_by_id : delete_order(i) =>
         /\ ret'.exc = NoExc /\ ret'.val = TRUE
         /\ i \notin DOMAIN orders_by_id'
         /\ DOMAIN orders_by_id' = DOMAIN orders_by_id \ {i}
         /\ \A sd \in BookSides, p \in Prices :
              at_price(bids_by_price', asks_by_price', p, sd)
                = Without(orders_at_price_refs(p, sd), orders_by_id[i])
         /\ bid_heap' = bid_heap /\ ask_heap' = ask_heap]_vars

\* C9 witness: a delete has emptied the book and the price of the vacated
\* level is still in the Frontier
C9_Witness ==
  /\ ret.op = "delete_order" /\ ret.exc = NoExc /\ ret.val = TRUE
  /\ DOMAIN orders_by_id = {}
  /\ Len(bid_heap) = 1 /\ ask_heap = <<>>

\* C10: amend_order of a present identifier returns found and changes only the
\* quantity of that order: identifiers, buckets and Frontiers are unchanged and
\* lookup, get_orders_at_price and best show the order with the new quantity.
C10_AmendChangesOnlyQuantity ==
  [][ret'.op = "amend_order" =>
       \A i \in DOMAIN orders_by_id : \A q \in Quantities : amend_order(i, q) =>
         /\ ret'.exc = NoExc /\ ret'.val = TRUE
         /\ DOMAIN orders_by_id' = DOMAIN orders_by_id
         /\ bids_by_price' = bids_by_price /\ asks_by_price' = asks_by_price
         /\ bid_heap' = bid_heap /\ ask_heap' = ask_heap
         /\ \A j \in DOMAIN orders_by_id :
              objects'[orders_by_id'[j]] = Amended(objects[orders_by_id[j]], i, q)
         /\ objects'[orders_by_id'[i]].quantity = q
         /\ \A p \in Prices, sd \in SideFilters :
              DerefSeqIn(objects', at_price(bids_by_price', asks_by_price', p, sd))
                = AmendedSeq(DerefSeq(orders_at_price_refs(p, sd)), i, q)
         /\ DerefIn(objects', best_bid_loop(bid_heap', bids_by_price').val)
              = AmendedSeq(Deref(best_bid_loop(bid_heap, bids_by_price).val), i, q)
         /\ DerefIn(objects', best_ask_loop(ask_heap', asks_by_price').val)
              = AmendedSeq(Deref(best_ask_loop(ask_heap, asks_by_price).val), i, q)
    ]_vars

\* C10 witness: after an amend, best returns the head of a two-order bucket
\* whose quantity differs from that of the order behind it
C10_Witness ==
  /\ ret.op = "amend_order" /\ ret.exc = NoExc /\ ret.val = TRUE
  /\ \E p \in Prices :
       /\ Len(orders_at_price_refs(p, "bid")) = 2
       /\ Deref(best_bid_loop(bid_heap, bids_by_price).val) = Some(objects[bids_by_price[p][1]])
       /\ objects[bids_by_price[p][1]].quantity # objects[bids_by_price[p][2]].quantity

\* C11: round trip through the Identity Index.  After an add_order that
\* returned normally, lookup_order of the added id returns an order equal to
\* the added one in order_id, price, quantity and side; after an amend_order
\* (id, q) that returned True, lookup_order(id) returns the order with quantity
\* q and the order_id, price and side it had; after a delete_order(id) that
\* returned True, lookup_order(id) returns None.
C11_RoundTrip ==
  [][/\ (ret'.op = "add_order" /\ ret'.exc = NoExc) =>
          \A o \in OrderDicts :
            add_order(o) => DerefIn(objects', dict_get(orders_by_id', o.order_id)) = Some(o)
     /\ (ret'.op = "amend_order" /\ ret'.val = TRUE) =>
          \A i \in OrderIds, q \in Quantities :
            amend_order(i, q) =>
              DerefIn(objects', dict_get(orders_by_id', i))
                = Some([Deref(lookup_ref(i))[1] EXCEPT !.quantity = q])
     /\ (ret'.op = "delete_order" /\ ret'.exc = NoExc /\ ret'.val = TRUE) =>
          \A i \in OrderIds :
            delete_order(i) => DerefIn(objects', dict_get(orders_by_id', i)) = None]_vars

\* an amend_order returned True while the index is full and its orders carry
\* different quantities
C11_Witness ==
  /\ ret.op = "amend_order"
  /\ ret.val = TRUE
  /\ Cardinality(DOMAIN orders_by_id) = MaxId
  /\ \E i, j \in DOMAIN orders_by_id :
       Deref(lookup_ref(i))[1].quantity # Deref(lookup_ref(j))[1].quantity

\* C12: absence is a normal outcome.  amend_order and delete_order with an id
\* that is not in orders_by_id return False without raising and leave the
\* index, the ladders and the heaps unchanged; lookup_order of an absent id
\* returns None; on an empty book get_best_bid and get_best_ask (and the pair
\* of get_best_bid_ask) return None, and lookup_order of any id returns None.
EmptyBook == orders_by_id = EmptyDict /\ bids_by_price = EmptyDict /\ asks_by_price = EmptyDict

C12_AbsenceIsNormal ==
  [][/\ ret'.op = "amend_order" =>
          \/ ret'.exc = NoExc /\ ret'.val = FALSE /\ UNCHANGED book
          \/ ~(\E i \in OrderIds \ DOMAIN orders_by_id, q \in Quantities : amend_order(i, q))
     /\ ret'.op = "delete_order" =>
          \/ ret'.exc = NoExc /\ ret'.val = FALSE /\ UNCHANGED book
          \/ ~(\E i \in OrderIds \ DOMAIN orders_by_id : delete_order(i))
     /\ ret'.op = "lookup_order" =>
          \/ ret'.exc = NoExc /\ ret'.val = None /\ UNCHANGED book
          \/ ~(\E i \in OrderIds \ DOMAIN orders_by_id : lookup_order(i))
     /\ (EmptyBook /\ ret'.op \in {"get_best_bid", "get_best_ask"}) =>
          ret'.exc = NoExc /\ ret'.val = None
     /\ (EmptyBook /\ ret'.op = "get_best_bid_ask") =>
          ret'.exc = NoExc /\ ret'.val = <<None, None>>]_vars

\* delete_order of an absent id returned False on a book that holds another
\* order and prices in both heaps
C12_Witness ==
  /\ ret.op = "delete_order"
  /\ ret.exc = NoExc
  /\ ret.val = FALSE
  /\ orders_by_id # EmptyDict
  /\ bid_heap # <<>>
  /\ ask_heap # <<>>

\* C13: on each side the total number of stale prices popped by the best
\* calls never exceeds the total number of level-vacating deletes on that side
\* (unpurged is the second total minus the first), also when a price is vacated
\* and created again.
C13_PopsBoundedByVacates ==
  \A side \in BookSides : unpurged[side] >= 0

\* get_best_bid has popped the stale price 2 and returned an order at price 1,
\* a level that was vacated and created again and still has a stale entry
C13_Witness ==
  /\ ret.op = "get_best_bid"
  /\ ret.val # None
  /\ bid_heap = <<-1, -1>>
  /\ vacated["bid"] = {1, 2}
  /\ unpurged["bid"] = 1

\* C14: the number of entries of a side's heap is at most the number of live
\* orders of that side plus the number of distinct prices of that side whose
\* level was vacated at least once.
C14_FrontierBoundedByDistinctVacates ==
  \A side \in BookSides :
    Len(IF side = "bid" THEN bid_heap ELSE ask_heap)
      <= Cardinality(LiveRefs(side)) + Cardinality(vacated[side])

\* C17: every order in orders_by_id has a quantity that is not negative.
C17_QuantityNonNegative ==
  \A i \in DOMAIN orders_by_id : objects[orders_by_id[i]].quantity >= 0

\* C15: the two sides are independent.  get_best_bid changes nothing but
\* bid_heap and get_best_ask nothing but ask_heap, so the answer of the other
\* side is the same before and after the call; get_best_bid_ask returns the
\* pair (best bid, best ask), each component being what the call for that side
\* alone returns and the best live order of that side, and it leaves each heap
\* as the call for that side alone leaves it, whatever stale entries the other
\* heap holds.
C15_SidesAreIndependent ==
  [][/\ ret'.op = "get_best_bid" =>
          /\ UNCHANGED <<objects, orders_by_id, bids_by_price, asks_by_price, ask_heap>>
          /\ best_ask_loop(ask_heap', asks_by_price') = best_ask_loop(ask_heap, asks_by_price)
     /\ ret'.op = "get_best_ask" =>
          /\ UNCHANGED <<objects, orders_by_id, bids_by_price, asks_by_price, bid_heap>>
          /\ best_bid_loop(bid_heap', bids_by_price') = best_bid_loop(bid_heap, bids_by_price)
     /\ ret'.op = "get_best_bid_ask" =>
          /\ UNCHANGED <<objects, orders_by_id, bids_by_price, asks_by_price>>
          /\ ret'.exc = NoExc
          /\ ret'.val = <<Deref(best_bid_loop(bid_heap, bids_by_price).val),
                          Deref(best_ask_loop(ask_heap, asks_by_price).val)>>
          /\ ret'.val = <<ExpectedBest("bid"), ExpectedBest("ask")>>
          /\ bid_heap' = best_bid_loop(bid_heap, bids_by_price).heap
          /\ ask_heap' = best_ask_loop(ask_heap, asks_by_price).heap]_vars

\* get_best_bid_ask returned no bid and a live ask while the ask heap still
\* holds a stale price behind the live one
C15_Witness ==
  /\ ret.op = "get_best_bid_ask"
  /\ ret.val[1] = None
  /\ ret.val[2] # None
  /\ bid_heap = <<>>
  /\ Len(ask_heap) > Cardinality(DOMAIN asks_by_price)

\* the bucket of a ladder at a price, empty when the ladder has no such level
Bucket(ladder, price) == IF price \in DOMAIN ladder THEN ladder[price] ELSE <<>>

\* C16: get_orders_at_price is a pure query.  It changes neither the index,
\* the ladders nor the heaps (it pops nothing); it never raises; for a price
\* with no resting order on the requested side(s) it returns the empty list,
\* also when a heap still holds that price as a stale entry; with side=None it
\* returns the bids at the price followed by the asks at the price.
C16_OrdersAtPriceIsPure ==
  [][ret'.op = "get_orders_at_price" =>
       /\ UNCHANGED book
       /\ ret'.exc = NoExc
       /\ \A p \in Prices, s \in SideFilters :
            get_orders_at_price(p, s) =>
              /\ s = Both =>
                   ret'.val = DerefSeq(Bucket(bids_by_price, p)) \o DerefSeq(Bucket(asks_by_price, p))
              /\ s = "bid" => ret'.val = DerefSeq(Bucket(bids_by_price, p))
              /\ s = "ask" => ret'.val = DerefSeq(Bucket(asks_by_price, p))
              /\ (/\ s \in {Both, "bid"} => p \notin DOMAIN bids_by_price
                  /\ s \in {Both, "ask"} => p \notin DOMAIN asks_by_price) => ret'.val = <<>>]_vars

\* get_orders_at_price returned the empty list on a book with no resting order
\* whose bid heap holds every price as a stale entry
C16_Witness ==
  /\ ret.op = "get_orders_at_price"
  /\ ret.val = <<>>
  /\ bids_by_price = EmptyDict
  /\ asks_by_price = EmptyDict
  /\ \A p \in Prices : HeapHas(bid_heap, 0 - p)

\* C18: the drain loop of get_best_bid and get_best_ask terminates and discards
\* stale entries only.  Every iteration leaves the index, both ladders and the
\* other heap unchanged; an iteration that pops removes the root of the heap,
\* and that root is a price with no live bucket; the call returns either a live
\* order, with the top of the heap a price whose bucket is non-empty and the
\* order the first of that bucket, or None with the heap empty; the loop gives
\* what the atomic call gives.  Termination: an iteration that does not return
\* shortens the heap by one entry, and a running call can always take an
\* iteration that pops or returns, so a call on a heap of n entries returns
\* within n + 1 iterations.
C18_DrainStep(name, heap, ladder, loop(_, _), neg) ==
  pc = name =>
    /\ pc' = name => Len(heap') = Len(heap) - 1
    /\ pc' = "idle" => heap' = heap \/ Len(heap') < Len(heap)
    /\ Len(heap') < Len(heap) =>
         /\ heap' = heappop(heap)
         /\ Bucket(ladder, neg * heap[1]) = <<>>
         /\ pc' = name
    /\ pc' = "idle" =>
         /\ heap' = loop(heap, ladder).heap
         /\ ret'.val = Deref(loop(heap, ladder).val)
         /\ \/ /\ ret'.val # None
               /\ heap' # <<>>
               /\ Bucket(ladder, neg * heap'[1]) # <<>>
               /\ ret'.val = Some(objects[Bucket(ladder, neg * heap'[1])[1]])
            \/ /\ ret'.val = None
               /\ heap' = <<>>
    /\ loop(heap', ladder) = loop(heap, ladder)

\* a running call can take an iteration that pops or returns
C18_Running ==
  /\ pc = "get_best_bid" => ENABLED <<get_best_bid_iteration>>_<<pc, bid_heap>>
  /\ pc = "get_best_ask" => ENABLED <<get_best_ask_iteration>>_<<pc, ask_heap>>

C18_DrainTerminatesAndPopsStaleOnly ==
  /\ []C18_Running
  /\ [][/\ pc # "idle" => UNCHANGED <<objects, orders_by_id, bids_by_price, asks_by_price>>
        /\ pc = "get_best_bid" => UNCHANGED ask_heap
        /\ pc = "get_best_ask" => UNCHANGED bid_heap
        /\ C18_DrainStep("get_best_bid", bid_heap, bids_by_price, best_bid_loop, -1)
        /\ C18_DrainStep("get_best_ask", ask_heap, asks_by_price, best_ask_loop, 1)]_vars

\* get_best_bid returned None with the heap empty after it had popped a stale
\* entry for every price
C18_Witness ==
  /\ pc = "idle"
  /\ ret.op = "get_best_bid"
  /\ ret.val = None
  /\ bid_heap = <<>>
  /\ vacated["bid"] = Prices
  /\ unpurged["bid"] = 0

\* C19: given the same well-formed calls, OptimizedOrderBook and NaiveOrderBook
\* answer every query alike: lookup_order of every id, get_orders_at_price of
\* every price with side "bid", "ask" and None (the same orders in the same
\* order), get_best_bid and get_best_ask, ties at a price resolved by arrival
\* order in both; a best call that was made returned what the naive book
\* returns.
C19_NaiveAndOptimizedAgree ==
  /\ \A i \in EquivIds : Deref(lookup_ref(i)) = naive_lookup_order(i)
  /\ \A p \in Prices, s \in SideFilters :
       DerefSeq(orders_at_price_refs(p, s)) = naive_get_orders_at_price(p, s)
  /\ Deref(best_bid_loop(bid_heap, bids_by_price).val) = naive_get_best_bid
  /\ Deref(best_ask_loop(ask_heap, asks_by_price).val) = naive_get_best_ask
  /\ ret.op = "get_best_bid" => ret.val = naive_get_best_bid
  /\ ret.op = "get_best_ask" => ret.val = naive_get_best_ask

\* get_best_bid returned the head of the naive list; that list holds three bids,
\* two of them tied at the best price with the later id first in arrival order,
\* and the bid heap holds a stale entry
C19_Witness ==
  /\ Len(naive_bids) = 3
  /\ ret.op = "get_best_bid"
  /\ ret.val = Some(naive_bids[1])
  /\ naive_bids[1].price = naive_bids[2].price
  /\ naive_bids[1].order_id > naive_bids[2].order_id
  /\ naive_bids[3].price < naive_bids[1].price
  /\ Len(bid_heap) > Cardinality(DOMAIN bids_by_price)

\* the best order of a side after an order was added to it
C20_BestAfterAdd(o) ==
  LET old == ExpectedBest(o.side)
  IN IF old = None THEN Some(o)
     ELSE IF o.side = "bid" /\ o.price > old[1].price THEN Some(o)
     ELSE IF o.side = "ask" /\ o.price < old[1].price THEN Some(o)
     ELSE old

\* C20: an id can be used again after its order was deleted.  A delete_order
\* that returned True leaves the id out of orders_by_id; an add_order with an
\* id that is not in orders_by_id, whether never used or deleted before, with
\* any price and side "bid" or "ask", returns normally, stores the order under
\* the id, puts it at the tail of the bucket of its side and price behind the
\* orders resting there, pushes the price into the heap of its side when the
\* level does not exist (one more entry, also when a stale entry of that price
\* is still there), and the best of the side is then the new order when its
\* price beats the best live price, else the best as it was.
C20_IdReusableAfterDelete ==
  [][/\ (ret'.op = "delete_order" /\ ret'.exc = NoExc /\ ret'.val = TRUE) =>
          \A i \in OrderIds : delete_order(i) => i \notin DOMAIN orders_by_id'
     /\ ret'.op = "add_order" =>
          \A o \in OrderDicts :
            (o.side \in BookSides /\ o.order_id \notin DOMAIN orders_by_id /\ add_order(o)) =>
              LET heap == IF o.side = "bid" THEN bid_heap ELSE ask_heap
                  heap2 == IF o.side = "bid" THEN bid_heap' ELSE ask_heap'
                  ladder == IF o.side = "bid" THEN bids_by_price ELSE asks_by_price
                  ladder2 == IF o.side = "bid" THEN bids_by_price' ELSE asks_by_price'
                  item == IF o.side = "bid" THEN 0 - o.price ELSE o.price
                  best2 == IF o.side = "bid"
                           THEN best_bid_loop(bid_heap', bids_by_price').val
                           ELSE best_ask_loop(ask_heap', asks_by_price').val
              IN /\ ret'.exc = NoExc
                 /\ DerefIn(objects', dict_get(orders_by_id', o.order_id)) = Some(o)
                 /\ o.price \in DOMAIN ladder2
                 /\ DerefSeqIn(objects', ladder2[o.price])
                      = Append(DerefSeq(Bucket(ladder, o.price)), o)
                 /\ IF o.price \in DOMAIN ladder
                    THEN heap2 = heap
                    ELSE Len(heap2) = Len(heap) + 1 /\ HeapHas(heap2, item)
                 /\ DerefIn(objects', best2) = C20_BestAfterAdd(o)]_vars

\* an add_order returned normally and created the level bid 1 for the
\* (MaxHeap)th time: with fewer ids than heap entries, an id was used again
\* after its delete, and the price was pushed again on every creation
C20_Witness ==
  /\ ret.op = "add_order"
  /\ ret.exc = NoExc
  /\ bid_heap = [k \in 1..MaxHeap |-> -1]
  /\ DOMAIN bids_by_price = {1}
  /\ Len(bids_by_price[1]) = 1

====
